---- MODULE Spec2Model ----
(***************************************************************************)
(* Model of yamc's headless-Chrome PDF path, src/src/main.rs.              *)
(*                                                                         *)
(* convert_html_to_pdf_with_chrome is one sequential async function.  Each *)
(* action below is one external call of that function (a spawn, a sleep,   *)
(* an HTTP request, the file write, the kill) together with the code that  *)
(* inspects its outcome up to the next external call.  The outcome of      *)
(* every external call is an input chosen by the environment.              *)
(***************************************************************************)
EXTENDS Integers, Sequences, FiniteSets

(***************************************************************************)
(* Bounds of the environment.                                              *)
(***************************************************************************)
\* longest target list GET /json answers with
MaxTargets == 2
\* longest base64 payload the print response carries (in characters)
MaxData == 4

(***************************************************************************)
(* Program constants.                                                      *)
(***************************************************************************)
StartWaitMs == 1000
LoadWaitMs == 2000

Endpoint == "http://localhost:9222"

\* the first two Command::new sites exchanged
CandidatesSwapped == <<"chromium", "chrome", "google-chrome">>

\* the binary names of the three Command::new sites, in source order
Candidates == <<"chrome", "chromium", "google-chrome">>

\* the paths handed to the function; valid UTF-8, so to_string_lossy keeps them
HtmlFiles == {"/tmp/.tmpA", "/tmp/.tmpB"}
PdfFiles == {"README.pdf", "custom.out"}

\* identifiers the browser may give to the tab POST /json/new creates
TabIds == {"T1", "T2"}

\* HTTP status codes the endpoint may answer with
Statuses == {200, 204, 404, 500}

IsSuccess(status) == status >= 200 /\ status < 300

(***************************************************************************)
(* base64::decode, standard alphabet.  A payload is a sequence of          *)
(* characters; four characters carry three bytes.                          *)
(***************************************************************************)
B64Alphabet ==
  << "A","B","C","D","E","F","G","H","I","J","K","L","M","N","O","P",
     "Q","R","S","T","U","V","W","X","Y","Z","a","b","c","d","e","f",
     "g","h","i","j","k","l","m","n","o","p","q","r","s","t","u","v",
     "w","x","y","z","0","1","2","3","4","5","6","7","8","9","+","/" >>

IsB64Char(c) == \E i \in 1..Len(B64Alphabet) : B64Alphabet[i] = c

B64Value(c) == (CHOOSE i \in 1..Len(B64Alphabet) : B64Alphabet[i] = c) - 1

\* the three bytes of the quantum starting at character k
B64Quantum(data, k) ==
  LET v1 == B64Value(data[k])
      v2 == B64Value(data[k + 1])
      v3 == B64Value(data[k + 2])
      v4 == B64Value(data[k + 3])
  IN  << v1 * 4 + (v2 \div 16),
         (v2 % 16) * 16 + (v3 \div 4),
         (v3 % 4) * 64 + v4 >>

RECURSIVE B64Bytes(_, _)
B64Bytes(data, k) ==
  IF k > Len(data) THEN << >>
  ELSE B64Quantum(data, k) \o B64Bytes(data, k + 4)

\* the payloads of the model are unpadded; one with a character outside the
\* alphabet or with a dangling single character is rejected
Base64DecodeOk(data) ==
  /\ \A i \in 1..Len(data) : IsB64Char(data[i])
  /\ Len(data) % 4 = 0

Base64Decode(data) == B64Bytes(data, 1)

\* characters the print payloads of the model are built from ("!" is not base64)
DataChars == {"A", "/", "!"}

\* every payload up to MaxData characters whose decoding does not depend on how
\* the decoder treats missing padding: whole quanta, a dangling single
\* character, or a character outside the alphabet
Payloads ==
  {d \in UNION {[1..n -> DataChars] : n \in 0..MaxData} :
     \/ Len(d) % 4 \in {0, 1}
     \/ \E i \in 1..Len(d) : d[i] = "!"}

(***************************************************************************)
(* Responses of the control endpoint.  sent = FALSE is a transport failure *)
(* (send() returns Err).  json = FALSE is a body that response.json()      *)
(* cannot deserialize into the requested type.                             *)
(***************************************************************************)
NoResp ==
  [sent |-> FALSE, status |-> 0, json |-> FALSE, targets |-> << >>,
   has_id |-> FALSE, id |-> "", has_data |-> FALSE, data |-> << >>]

TransportFailure == NoResp

Targets == [type : {"page", "iframe"}, has_ws : BOOLEAN]

TargetLists == UNION {[1..n -> Targets] : n \in 0..MaxTargets}

ListResponses ==
  {TransportFailure}
  \cup {[NoResp EXCEPT !.sent = TRUE, !.status = s] : s \in Statuses}
  \cup {[NoResp EXCEPT !.sent = TRUE, !.status = s, !.json = TRUE, !.targets = t] :
          s \in Statuses, t \in TargetLists}

NewTabResponses ==
  {TransportFailure}
  \cup {[NoResp EXCEPT !.sent = TRUE, !.status = s] : s \in Statuses}
  \cup {[NoResp EXCEPT !.sent = TRUE, !.status = s, !.json = TRUE] : s \in Statuses}
  \cup {[NoResp EXCEPT !.sent = TRUE, !.status = s, !.json = TRUE,
                       !.has_id = TRUE, !.id = i] : s \in Statuses, i \in TabIds}

StatusResponses ==
  {TransportFailure}
  \cup {[NoResp EXCEPT !.sent = TRUE, !.status = s] : s \in Statuses}

PrintResponses ==
  {TransportFailure}
  \cup {[NoResp EXCEPT !.sent = TRUE, !.status = s] : s \in Statuses}
  \cup {[NoResp EXCEPT !.sent = TRUE, !.status = s, !.json = TRUE] : s \in Statuses}
  \cup {[NoResp EXCEPT !.sent = TRUE, !.status = s, !.json = TRUE,
                       !.has_data = TRUE, !.data = d] : s \in Statuses, d \in Payloads}

(***************************************************************************)
(* Result<(), ConversionError>                                             *)
(***************************************************************************)
NoResult == [kind |-> "none", msg |-> ""]
Ok == [kind |-> "Ok", msg |-> ""]

ChromeError(m) == [kind |-> "ChromeError", msg |-> m]
NetworkError == [kind |-> "NetworkError", msg |-> "reqwest"]
IoError == [kind |-> "IoError", msg |-> "io"]
PdfConversionFailed == [kind |-> "PdfConversionFailed", msg |-> "Failed to decode PDF data"]

(***************************************************************************)
(* External calls, in the order they are made.                             *)
(***************************************************************************)
SpawnCall(name) == [op |-> "spawn", arg |-> name, body |-> "", ms |-> 0]
SleepCall(n) == [op |-> "sleep", arg |-> "", body |-> "", ms |-> n]
GetCall(url) == [op |-> "GET", arg |-> url, body |-> "", ms |-> 0]
PostCall(url, b) == [op |-> "POST", arg |-> url, body |-> b, ms |-> 0]
WriteCall(path) == [op |-> "write", arg |-> path, body |-> "", ms |-> 0]
KillCall(name) == [op |-> "kill", arg |-> name, body |-> "", ms |-> 0]

ListUrl == Endpoint \o "/json"
NewTabUrl == Endpoint \o "/json/new"
NavigateUrl(tab) == Endpoint \o "/json/navigate/" \o tab
PrintUrl(tab) == Endpoint \o "/json/print/" \o tab
CloseUrl(tab) == Endpoint \o "/json/close/" \o tab

FileUrl(path) == "file://" \o path

VARIABLES
  installed,       \* the candidate binaries that can be spawned on this machine
  html_file,       \* argument: the generated HTML file
  pdf_file,        \* argument: the destination PDF path
  pc,              \* position in convert_html_to_pdf_with_chrome
  chrome_process,  \* the Child handle: "" before a spawn succeeded
  tab_id,          \* "" before the new-tab response gave one
  pdf_bytes,       \* the decoded payload
  result,          \* what the function returned
  resp,            \* the response to the latest HTTP request
  calls,           \* the external calls made so far
  running,         \* browser processes alive
  open_tabs,       \* tabs created through /json/new and not closed
  files,           \* destination paths written, with their content
  mpc,             \* position in main .. convert_markdown_to_pdf
  args,            \* the command line
  output_format,   \* config.output_format: "Html" or "Pdf" ("" before Config::new)
  output_file,     \* config.output_file
  markdown,        \* the text read from the input file
  temp_html,       \* the TempPath of convert_markdown_to_pdf ("" before it exists)
  temp_state,      \* the temporary file on disk
  out_html,        \* the HTML output file on disk ("" while it does not exist)
  conv_result,     \* what convert_markdown_file returns to main
  exit_code,       \* exit status of the process, -1 while it runs
  stderr,          \* the lines printed with eprintln!
  oscalls,         \* the external calls made outside the orchestrator
  tree,            \* Layout Engine: the nodes of the document, in document order
  node_ix,         \* Layout Engine: the node laid out next
  cursor_y,        \* Layout Engine: the LayoutCursor, in tenths of a millimetre
  commands         \* Layout Engine: the DrawCommands emitted so far

orch_vars == <<installed, html_file, pdf_file, pc, chrome_process, tab_id, pdf_bytes,
               result, resp, calls, running, open_tabs, files>>

main_vars == <<mpc, args, output_format, output_file, markdown, temp_html, temp_state,
               out_html, conv_result, exit_code, stderr, oscalls>>

layout_vars == <<tree, node_ix, cursor_y, commands>>

vars == <<installed, html_file, pdf_file, pc, chrome_process, tab_id, pdf_bytes,
          result, resp, calls, running, open_tabs, files,
          mpc, args, output_format, output_file, markdown, temp_html, temp_state,
          out_html, conv_result, exit_code, stderr, oscalls,
          tree, node_ix, cursor_y, commands>>

(***************************************************************************)
(* Layout Engine (spec 3 and 4.2).  Lengths are in tenths of a millimetre, *)
(* font sizes in points.  This build does not use the engine.              *)
(***************************************************************************)
\* longest document laid out
MaxNodes == 3

PageHeight == 2970
\* the cursor starts about 10 mm below the top of the page
StartY == 2870
BodyX == 200
ListX == 250

\* a node of the tree: headings carry a level, lists a number of items,
\* every other kind is a container the engine draws nothing for
LayoutNodes ==
  [kind : {"Heading"}, level : 1..6, items : {0}]
  \cup [kind : {"Paragraph", "BlockQuote"}, level : {0}, items : {0}]
  \cup [kind : {"List"}, level : {0}, items : 1..2]

Trees == UNION {[1..n -> LayoutNodes] : n \in 0..MaxNodes}

NoLayout ==
  /\ tree = << >>
  /\ node_ix = 1
  /\ cursor_y = StartY
  /\ commands = << >>

(***************************************************************************)
(* The command line, the input file and the documents made from it.        *)
(***************************************************************************)
CssUrl == "https://cdnjs.cloudflare.com/ajax/libs/github-markdown-css/4.0.0/github-markdown.min.css"
CssClass == "markdown-body"

InputStem == "README"

\* args.len() == 2 with a help flag; fewer than 3 arguments; or a command with
\* an input file and an optional output file ("" when absent)
ArgLines ==
  {[kind |-> "help", command |-> "", input_ok |-> FALSE, output |-> ""],
   [kind |-> "short", command |-> "", input_ok |-> FALSE, output |-> ""]}
  \cup [kind : {"run"}, command : {"convert", "pdf", "render"},
        input_ok : BOOLEAN, output : {"", "custom.out"}]

\* Config::new: the given output path, or the input path with its extension
\* replaced by the format's
OutputPath(a, format) ==
  IF a.output # "" THEN a.output
  ELSE InputStem \o (IF format = "Html" THEN ".html" ELSE ".pdf")

MarkdownTexts == {"text"}

\* markdown_to_html on the texts of the model
MarkdownToHtml(m) == "<p>" \o m \o "</p>"

\* create_html_document: stylesheet link, styled body class, the fragment
CreateHtmlDocument(html_content, css_url, css_class) ==
  "<!DOCTYPE html><link rel=\"stylesheet\" href=\"" \o css_url \o "\"><body class=\""
    \o css_class \o "\">" \o html_content \o "</body></html>"

\* the calls made outside the orchestrator
\* ok: whether the call succeeded
OsCall(op, path, ok) == [op |-> op, arg |-> path, ok |-> ok]

Init ==
  /\ installed \in SUBSET {Candidates[i] : i \in 1..Len(Candidates)}
  /\ html_file \in HtmlFiles
  /\ pdf_file \in PdfFiles
  /\ pc = "spawn_chrome"
  /\ chrome_process = ""
  /\ tab_id = ""
  /\ pdf_bytes = << >>
  /\ result = NoResult
  /\ resp = NoResp
  /\ calls = << >>
  /\ running = {}
  /\ open_tabs = {}
  /\ files = {}
  /\ mpc = "chrome"
  /\ args \in {a \in ArgLines : a.kind = "run" /\ a.command = "pdf" /\ a.input_ok
                                  /\ OutputPath(a, "Pdf") = pdf_file}
  /\ output_format = "Pdf"
  /\ output_file = pdf_file
  /\ markdown \in MarkdownTexts
  /\ temp_html = html_file
  /\ temp_state = "written"
  /\ out_html = ""
  /\ conv_result = NoResult
  /\ exit_code = -1
  /\ stderr = << >>
  /\ oscalls = << OsCall("read", InputStem \o ".md", TRUE),
                  OsCall("tempfile", html_file, TRUE),
                  OsCall("write_html", html_file, TRUE),
                  OsCall("runtime", "", TRUE),
                  OsCall("block_on", html_file, TRUE) >>
  /\ NoLayout

\* the orchestrator is at p; it runs inside block_on and touches nothing of
\* its caller
At(p) ==
  /\ pc = p
  /\ mpc = "chrome"
  /\ UNCHANGED main_vars
  /\ UNCHANGED layout_vars

CouldNotStart == "Could not start Chrome/Chromium. Please ensure Chrome or Chromium is installed."

\* return Err(e) / the ? operator: the function returns at once
Fail(e) ==
  /\ result' = e
  /\ pc' = "done"

\* TrySpawn without the map_err(..)? after the last candidate: the function
\* goes on to the wait although nothing was spawned
TrySpawnNoReturn(name, onfail) ==
  /\ calls' = Append(calls, SpawnCall(name))
  /\ IF name \in installed
     THEN /\ chrome_process' = name
          /\ running' = running \cup {name}
          /\ pc' = "sleep_start"
     ELSE /\ UNCHANGED <<chrome_process, running>>
          /\ pc' = IF onfail = "done" THEN "sleep_start" ELSE onfail
  /\ UNCHANGED <<installed, html_file, pdf_file, tab_id, pdf_bytes, result, resp,
                 open_tabs, files>>

(***************************************************************************)
(* Command::new(name).spawn(), chained with or_else                        *)
(***************************************************************************)
TrySpawn(name, onfail) ==
  /\ calls' = Append(calls, SpawnCall(name))
  /\ IF name \in installed
     THEN /\ chrome_process' = name
          /\ running' = running \cup {name}
          /\ pc' = "sleep_start"
          /\ UNCHANGED result
     ELSE /\ UNCHANGED <<chrome_process, running>>
          /\ IF onfail = "done"
             THEN Fail(ChromeError(CouldNotStart))
             ELSE /\ pc' = onfail
                  /\ UNCHANGED result
  /\ UNCHANGED <<installed, html_file, pdf_file, tab_id, pdf_bytes, resp, open_tabs, files>>

SpawnChrome ==
  /\ At("spawn_chrome")
  /\ TrySpawn(Candidates[1], "spawn_chromium")

SpawnChromium ==
  /\ At("spawn_chromium")
  /\ TrySpawn(Candidates[2], "spawn_google_chrome")

SpawnGoogleChrome ==
  /\ At("spawn_google_chrome")
  /\ TrySpawn(Candidates[3], "done")

\* SleepStart as a wait for the endpoint that polls it until it answers:
\* while it does not answer the function stays in the wait
SleepStartPolls ==
  /\ At("sleep_start")
  /\ \E r \in StatusResponses :
       /\ resp' = r
       /\ IF r.sent /\ IsSuccess(r.status)
          THEN /\ calls' = Append(calls, SleepCall(StartWaitMs))
               /\ pc' = "list_targets"
          ELSE UNCHANGED <<calls, pc>>
  /\ UNCHANGED <<installed, html_file, pdf_file, chrome_process, tab_id, pdf_bytes,
                 result, running, open_tabs, files>>

\* tokio::time::sleep(1000 ms)
SleepStart ==
  /\ At("sleep_start")
  /\ calls' = Append(calls, SleepCall(StartWaitMs))
  /\ pc' = "list_targets"
  /\ UNCHANGED <<installed, html_file, pdf_file, chrome_process, tab_id, pdf_bytes,
                 result, resp, running, open_tabs, files>>

\* find() looking for a page target that has a websocket url
FirstPageWithWs(targets) ==
  IF \E i \in 1..Len(targets) : targets[i].type = "page" /\ targets[i].has_ws
  THEN CHOOSE i \in 1..Len(targets) :
         /\ targets[i].type = "page" /\ targets[i].has_ws
         /\ \A j \in 1..(i - 1) : ~(targets[j].type = "page" /\ targets[j].has_ws)
  ELSE IF \E i \in 1..Len(targets) : targets[i].type = "page"
  THEN CHOOSE i \in 1..Len(targets) : targets[i].type = "page"
  ELSE 0

\* targets.into_iter().find(|t| t["type"] == "page"): 0 when there is none
FirstPage(targets) ==
  IF \E i \in 1..Len(targets) : targets[i].type = "page"
  THEN CHOOSE i \in 1..Len(targets) :
         /\ targets[i].type = "page"
         /\ \A j \in 1..(i - 1) : targets[j].type # "page"
  ELSE 0

\* ListTargets going straight to the navigate request
ListTargetsSkipNewTab ==
  /\ At("list_targets")
  /\ \E r \in ListResponses :
       /\ resp' = r
       /\ calls' = Append(calls, GetCall(ListUrl))
       /\ IF ~r.sent THEN Fail(NetworkError)
          ELSE IF ~r.json THEN Fail(NetworkError)
          ELSE IF FirstPage(r.targets) = 0
            THEN Fail(ChromeError("No page target found"))
          ELSE IF ~r.targets[FirstPage(r.targets)].has_ws
            THEN Fail(ChromeError("No WebSocket URL found"))
          ELSE /\ pc' = "navigate"
               /\ UNCHANGED result
  /\ UNCHANGED <<installed, html_file, pdf_file, chrome_process, tab_id, pdf_bytes,
                 running, open_tabs, files>>

\* GET /json, deserialize as Vec<Value>, pick the page target and its ws url
ListTargets ==
  /\ At("list_targets")
  /\ \E r \in ListResponses :
       /\ resp' = r
       /\ calls' = Append(calls, GetCall(ListUrl))
       /\ IF ~r.sent THEN Fail(NetworkError)
          ELSE IF ~r.json THEN Fail(NetworkError)
          ELSE IF FirstPage(r.targets) = 0
            THEN Fail(ChromeError("No page target found"))
          ELSE IF ~r.targets[FirstPage(r.targets)].has_ws
            THEN Fail(ChromeError("No WebSocket URL found"))
          ELSE /\ pc' = "new_tab"
               /\ UNCHANGED result
  /\ UNCHANGED <<installed, html_file, pdf_file, chrome_process, tab_id, pdf_bytes,
                 running, open_tabs, files>>

\* POST /json/new, deserialize as Value, take "id"
NewTab ==
  /\ At("new_tab")
  /\ \E r \in NewTabResponses :
       /\ resp' = r
       /\ calls' = Append(calls, PostCall(NewTabUrl, ""))
       /\ open_tabs' = IF r.has_id THEN open_tabs \cup {r.id} ELSE open_tabs
       /\ IF ~r.sent THEN Fail(NetworkError) /\ UNCHANGED tab_id
          ELSE IF ~r.json THEN Fail(NetworkError) /\ UNCHANGED tab_id
          ELSE IF ~r.has_id
            THEN Fail(ChromeError("Failed to get tab ID")) /\ UNCHANGED tab_id
          ELSE /\ tab_id' = r.id
               /\ pc' = "navigate"
               /\ UNCHANGED result
  /\ UNCHANGED <<installed, html_file, pdf_file, chrome_process, pdf_bytes,
                 running, files>>

\* Navigate without the is_success() check
NavigateUnchecked ==
  /\ At("navigate")
  /\ \E r \in StatusResponses :
       /\ resp' = r
       /\ calls' = Append(calls, PostCall(NavigateUrl(tab_id), FileUrl(html_file)))
       /\ IF ~r.sent THEN Fail(NetworkError)
          ELSE /\ pc' = "sleep_load"
               /\ UNCHANGED result
  /\ UNCHANGED <<installed, html_file, pdf_file, chrome_process, tab_id, pdf_bytes,
                 running, open_tabs, files>>

\* Navigate sending the request again after a transport failure
NavigateRetry ==
  /\ At("navigate")
  /\ \E r \in StatusResponses :
       /\ resp' = r
       /\ calls' = Append(calls, PostCall(NavigateUrl(tab_id), FileUrl(html_file)))
       /\ IF ~r.sent THEN UNCHANGED <<pc, result>>
          ELSE IF ~IsSuccess(r.status)
            THEN Fail(ChromeError("Failed to navigate to HTML file"))
          ELSE /\ pc' = "sleep_load"
               /\ UNCHANGED result
  /\ UNCHANGED <<installed, html_file, pdf_file, chrome_process, tab_id, pdf_bytes,
                 running, open_tabs, files>>

\* POST /json/navigate/{tab_id} with {"url": file_url}, then the status check
Navigate ==
  /\ At("navigate")
  /\ \E r \in StatusResponses :
       /\ resp' = r
       /\ calls' = Append(calls, PostCall(NavigateUrl(tab_id), FileUrl(html_file)))
       /\ IF ~r.sent THEN Fail(NetworkError)
          ELSE IF ~IsSuccess(r.status)
            THEN Fail(ChromeError("Failed to navigate to HTML file"))
          ELSE /\ pc' = "sleep_load"
               /\ UNCHANGED result
  /\ UNCHANGED <<installed, html_file, pdf_file, chrome_process, tab_id, pdf_bytes,
                 running, open_tabs, files>>

\* SleepLoad without the sleep
SleepLoadSkipped ==
  /\ At("sleep_load")
  /\ pc' = "print"
  /\ UNCHANGED <<installed, html_file, pdf_file, chrome_process, tab_id, pdf_bytes,
                 result, resp, calls, running, open_tabs, files>>

\* tokio::time::sleep(2000 ms)
SleepLoad ==
  /\ At("sleep_load")
  /\ calls' = Append(calls, SleepCall(LoadWaitMs))
  /\ pc' = "print"
  /\ UNCHANGED <<installed, html_file, pdf_file, chrome_process, tab_id, pdf_bytes,
                 result, resp, running, open_tabs, files>>

\* PrintToPdf without the is_success() check
PrintToPdfUnchecked ==
  /\ At("print")
  /\ \E r \in PrintResponses :
       /\ resp' = r
       /\ calls' = Append(calls, PostCall(PrintUrl(tab_id), "print-options"))
       /\ IF ~r.sent THEN Fail(NetworkError) /\ UNCHANGED pdf_bytes
          ELSE IF ~r.json THEN Fail(NetworkError) /\ UNCHANGED pdf_bytes
          ELSE IF ~r.has_data
            THEN Fail(ChromeError("No PDF data received")) /\ UNCHANGED pdf_bytes
          ELSE IF ~Base64DecodeOk(r.data)
            THEN Fail(PdfConversionFailed) /\ UNCHANGED pdf_bytes
          ELSE /\ pdf_bytes' = Base64Decode(r.data)
               /\ pc' = "write_pdf"
               /\ UNCHANGED result
  /\ UNCHANGED <<installed, html_file, pdf_file, chrome_process, tab_id,
                 running, open_tabs, files>>

\* POST /json/print/{tab_id}, status check, "data", base64::decode
PrintToPdf ==
  /\ At("print")
  /\ \E r \in PrintResponses :
       /\ resp' = r
       /\ calls' = Append(calls, PostCall(PrintUrl(tab_id), "print-options"))
       /\ IF ~r.sent THEN Fail(NetworkError) /\ UNCHANGED pdf_bytes
          ELSE IF ~IsSuccess(r.status)
            THEN Fail(ChromeError("Failed to generate PDF")) /\ UNCHANGED pdf_bytes
          ELSE IF ~r.json THEN Fail(NetworkError) /\ UNCHANGED pdf_bytes
          ELSE IF ~r.has_data
            THEN Fail(ChromeError("No PDF data received")) /\ UNCHANGED pdf_bytes
          ELSE IF ~Base64DecodeOk(r.data)
            THEN Fail(PdfConversionFailed) /\ UNCHANGED pdf_bytes
          ELSE /\ pdf_bytes' = Base64Decode(r.data)
               /\ pc' = "write_pdf"
               /\ UNCHANGED result
  /\ UNCHANGED <<installed, html_file, pdf_file, chrome_process, tab_id,
                 running, open_tabs, files>>

\* WritePdf with the outcome of fs::write dropped (let _ = ..)
WritePdfIgnoreError ==
  /\ At("write_pdf")
  /\ calls' = Append(calls, WriteCall(pdf_file))
  /\ \E ok \in BOOLEAN :
       files' = IF ok
                THEN {f \in files : f.path # pdf_file}
                       \cup {[path |-> pdf_file, content |-> pdf_bytes]}
                ELSE files
  /\ pc' = "close_tab"
  /\ UNCHANGED <<installed, html_file, pdf_file, chrome_process, tab_id, pdf_bytes,
                 result, resp, running, open_tabs>>

\* fs::write(pdf_file, pdf_bytes)?
WritePdf ==
  /\ At("write_pdf")
  /\ calls' = Append(calls, WriteCall(pdf_file))
  /\ \E ok \in BOOLEAN :
       IF ok
       THEN /\ files' = {f \in files : f.path # pdf_file}
                          \cup {[path |-> pdf_file, content |-> pdf_bytes]}
            /\ pc' = "close_tab"
            /\ UNCHANGED result
       ELSE /\ Fail(IoError)
            /\ UNCHANGED files
  /\ UNCHANGED <<installed, html_file, pdf_file, chrome_process, tab_id, pdf_bytes,
                 resp, running, open_tabs>>

\* let _ = POST /json/close/{tab_id}: whatever comes back is dropped
CloseTab ==
  /\ At("close_tab")
  /\ \E r \in StatusResponses :
       /\ resp' = r
       /\ calls' = Append(calls, PostCall(CloseUrl(tab_id), ""))
       /\ open_tabs' = IF r.sent /\ IsSuccess(r.status)
                       THEN open_tabs \ {tab_id} ELSE open_tabs
  /\ pc' = "kill"
  /\ UNCHANGED <<installed, html_file, pdf_file, chrome_process, tab_id, pdf_bytes,
                 result, running, files>>

\* let _ = chrome_process.kill(); Ok(())
KillChrome ==
  /\ At("kill")
  /\ calls' = Append(calls, KillCall(chrome_process))
  /\ running' = running \ {chrome_process}
  /\ open_tabs' = {}
  /\ result' = Ok
  /\ pc' = "done"
  /\ UNCHANGED <<installed, html_file, pdf_file, chrome_process, tab_id, pdf_bytes,
                 resp, files>>

Next ==
  \/ SpawnChrome
  \/ SpawnChromium
  \/ SpawnGoogleChrome
  \/ SleepStart
  \/ ListTargets
  \/ NewTab
  \/ Navigate
  \/ SleepLoad
  \/ PrintToPdf
  \/ WritePdf
  \/ CloseTab
  \/ KillChrome

Spec == Init /\ [][Next]_vars

\* every call of the orchestrator returns: a step that can be taken is taken
FairSpec == Spec /\ WF_vars(Next)

(***************************************************************************)
(* The caller of the orchestrator: main, handle_command,                   *)
(* convert_markdown_file and convert_markdown_to_pdf.  The orchestrator    *)
(* runs while mpc = "chrome" (inside runtime.block_on).                    *)
(***************************************************************************)
\* impl Display for ConversionError
Display(e) ==
  CASE e.kind = "IoError" -> "I/O error: " \o e.msg
    [] e.kind = "PdfConversionFailed" -> "PDF conversion failed: " \o e.msg
    [] e.kind = "ChromeError" -> "Chrome error: " \o e.msg
    [] e.kind = "NetworkError" -> "Network error: " \o e.msg

RuntimeFailed == "Failed to create async runtime"

\* process::exit(code) / return from main
Exit(code) ==
  /\ exit_code' = code
  /\ mpc' = "exited"

\* main up to the call of convert_markdown_file: the help and argument-count
\* checks, the command match of handle_command, Config::new
Main ==
  /\ mpc = "main"
  /\ IF args.kind = "help"
     THEN /\ Exit(0)
          /\ UNCHANGED <<output_format, output_file, stderr>>
     ELSE IF args.kind = "short"
     THEN /\ Exit(1)
          /\ stderr' = Append(stderr, "Error: Insufficient arguments")
          /\ UNCHANGED <<output_format, output_file>>
     ELSE IF args.command \notin {"convert", "pdf"}
     THEN /\ Exit(1)
          /\ stderr' = Append(stderr, "Unknown command: '" \o args.command \o "'")
          /\ UNCHANGED <<output_format, output_file>>
     ELSE IF ~args.input_ok
     THEN /\ Exit(1)
          /\ stderr' = Append(stderr, "Configuration error: Input file '"
                                        \o InputStem \o ".md' does not exist")
          /\ UNCHANGED <<output_format, output_file>>
     ELSE LET format == IF args.command = "convert" THEN "Html" ELSE "Pdf"
          IN  /\ output_format' = format
              /\ output_file' = OutputPath(args, format)
              /\ mpc' = "read"
              /\ UNCHANGED <<exit_code, stderr>>
  /\ UNCHANGED <<args, markdown, temp_html, temp_state, out_html, conv_result, oscalls>>
  /\ UNCHANGED orch_vars
  /\ UNCHANGED layout_vars

\* ReadMarkdown taking the PDF arm whatever the format
ReadMarkdownAlwaysPdf ==
  /\ mpc = "read"
  /\ \/ \E m \in MarkdownTexts :
          /\ oscalls' = Append(oscalls, OsCall("read", InputStem \o ".md", TRUE))
          /\ markdown' = m
          /\ mpc' = "tempfile"
          /\ UNCHANGED <<conv_result, stderr>>
     \/ /\ oscalls' = Append(oscalls, OsCall("read", InputStem \o ".md", FALSE))
        /\ conv_result' = IoError
        /\ stderr' = Append(stderr, "Failed to read markdown file: " \o Display(IoError))
        /\ mpc' = "report"
        /\ UNCHANGED markdown
  /\ UNCHANGED <<args, output_format, output_file, temp_html, temp_state, out_html, exit_code>>
  /\ UNCHANGED orch_vars
  /\ UNCHANGED layout_vars

\* read_markdown_file, then the match on config.output_format
ReadMarkdown ==
  /\ mpc = "read"
  /\ \/ \E m \in MarkdownTexts :
          /\ oscalls' = Append(oscalls, OsCall("read", InputStem \o ".md", TRUE))
          /\ markdown' = m
          /\ mpc' = IF output_format = "Html" THEN "write_output" ELSE "tempfile"
          /\ UNCHANGED <<conv_result, stderr>>
     \/ /\ oscalls' = Append(oscalls, OsCall("read", InputStem \o ".md", FALSE))
        /\ conv_result' = IoError
        /\ stderr' = Append(stderr, "Failed to read markdown file: " \o Display(IoError))
        /\ mpc' = "report"
        /\ UNCHANGED markdown
  /\ UNCHANGED <<args, output_format, output_file, temp_html, temp_state, out_html, exit_code>>
  /\ UNCHANGED orch_vars
  /\ UNCHANGED layout_vars

\* OutputFormat::Html: write_html_file(&config.output_file, &full_html)?
\* File::create may fail; write_all may fail after the file was truncated
WriteHtmlOutput ==
  /\ mpc = "write_output"
  /\ \/ /\ oscalls' = Append(oscalls, OsCall("write_html", output_file, TRUE))
        /\ out_html' = CreateHtmlDocument(MarkdownToHtml(markdown), CssUrl, CssClass)
        /\ conv_result' = Ok
     \/ /\ oscalls' = Append(oscalls, OsCall("write_html", output_file, FALSE))
        /\ out_html' \in {out_html, "(truncated)"}
        /\ conv_result' = IoError
  /\ mpc' = "report"
  /\ UNCHANGED <<args, output_format, output_file, markdown, temp_html, temp_state,
                 exit_code, stderr>>
  /\ UNCHANGED orch_vars
  /\ UNCHANGED layout_vars

\* convert_markdown_to_pdf: NamedTempFile::new()?.into_temp_path()
CreateTemp ==
  /\ mpc = "tempfile"
  /\ \/ \E path \in HtmlFiles :
          /\ oscalls' = Append(oscalls, OsCall("tempfile", path, TRUE))
          /\ temp_html' = path
          /\ temp_state' = "empty"
          /\ mpc' = "write_temp"
          /\ UNCHANGED conv_result
     \/ /\ oscalls' = Append(oscalls, OsCall("tempfile", "", FALSE))
        /\ conv_result' = IoError
        /\ mpc' = "report"
        /\ UNCHANGED <<temp_html, temp_state>>
  /\ UNCHANGED <<args, output_format, output_file, markdown, out_html, exit_code, stderr>>
  /\ UNCHANGED orch_vars
  /\ UNCHANGED layout_vars

\* WriteTemp with a plain path in place of the TempPath: nothing removes the
\* file when the write fails
WriteTempKeepsFile ==
  /\ mpc = "write_temp"
  /\ \/ /\ oscalls' = Append(oscalls, OsCall("write_html", temp_html, TRUE))
        /\ temp_state' = "written"
        /\ mpc' = "runtime"
        /\ UNCHANGED conv_result
     \/ /\ oscalls' = Append(oscalls, OsCall("write_html", temp_html, FALSE))
        /\ temp_state' \in {"empty", "partial"}
        /\ conv_result' = IoError
        /\ mpc' = "report"
  /\ UNCHANGED <<args, output_format, output_file, markdown, temp_html, out_html,
                 exit_code, stderr>>
  /\ UNCHANGED orch_vars
  /\ UNCHANGED layout_vars

\* write_html_file(&temp_html, &full_html)?
WriteTemp ==
  /\ mpc = "write_temp"
  /\ \/ /\ oscalls' = Append(oscalls, OsCall("write_html", temp_html, TRUE))
        /\ temp_state' = "written"
        /\ mpc' = "runtime"
        /\ UNCHANGED conv_result
     \/ /\ oscalls' = Append(oscalls, OsCall("write_html", temp_html, FALSE))
        /\ temp_state' \in {"empty", "partial"}
        /\ conv_result' = IoError
        /\ mpc' = "drop_temp"
  /\ UNCHANGED <<args, output_format, output_file, markdown, temp_html, out_html,
                 exit_code, stderr>>
  /\ UNCHANGED orch_vars
  /\ UNCHANGED layout_vars

\* CreateRuntime removing the temporary file before the orchestrator runs
CreateRuntimeRemovesFirst ==
  /\ mpc = "runtime"
  /\ \/ /\ oscalls' = oscalls \o << OsCall("runtime", "", TRUE), OsCall("block_on", temp_html, TRUE) >>
        /\ mpc' = "chrome"
        /\ html_file' = temp_html
        /\ pdf_file' = output_file
        /\ temp_state' = "deleted"
        /\ UNCHANGED conv_result
     \/ /\ oscalls' = Append(oscalls, OsCall("runtime", "", FALSE))
        /\ conv_result' = ChromeError(RuntimeFailed)
        /\ mpc' = "drop_temp"
        /\ UNCHANGED <<html_file, pdf_file, temp_state>>
  /\ UNCHANGED <<args, output_format, output_file, markdown, temp_html,
                 out_html, exit_code, stderr>>
  /\ UNCHANGED <<installed, pc, chrome_process, tab_id, pdf_bytes, result, resp, calls,
                 running, open_tabs, files>>
  /\ UNCHANGED layout_vars

\* Runtime::new() and, when it succeeds, runtime.block_on(orchestrator)
CreateRuntime ==
  /\ mpc = "runtime"
  /\ \/ /\ oscalls' = oscalls \o << OsCall("runtime", "", TRUE), OsCall("block_on", temp_html, TRUE) >>
        /\ mpc' = "chrome"
        /\ html_file' = temp_html
        /\ pdf_file' = output_file
        /\ UNCHANGED conv_result
     \/ /\ oscalls' = Append(oscalls, OsCall("runtime", "", FALSE))
        /\ conv_result' = ChromeError(RuntimeFailed)
        /\ mpc' = "drop_temp"
        /\ UNCHANGED <<html_file, pdf_file>>
  /\ UNCHANGED <<args, output_format, output_file, markdown, temp_html, temp_state,
                 out_html, exit_code, stderr>>
  /\ UNCHANGED <<installed, pc, chrome_process, tab_id, pdf_bytes, result, resp, calls,
                 running, open_tabs, files>>
  /\ UNCHANGED layout_vars

\* block_on returned: let _ = fs::remove_file(&temp_html); result
RemoveTemp ==
  /\ mpc = "chrome"
  /\ pc = "done"
  /\ \E ok \in BOOLEAN :
       /\ oscalls' = Append(oscalls, OsCall("remove_file", temp_html, ok))
       /\ temp_state' = IF ok THEN "deleted" ELSE temp_state
  /\ conv_result' = result
  /\ mpc' = "drop_temp"
  /\ UNCHANGED <<args, output_format, output_file, markdown, temp_html, out_html,
                 exit_code, stderr>>
  /\ UNCHANGED orch_vars
  /\ UNCHANGED layout_vars

\* temp_html goes out of scope: TempPath::drop removes the file and ignores
\* the outcome; there is nothing to remove when remove_file already did
DropTemp ==
  /\ mpc = "drop_temp"
  /\ \E ok \in (IF temp_state = "deleted" THEN {FALSE} ELSE BOOLEAN) :
       /\ oscalls' = Append(oscalls, OsCall("drop", temp_html, ok))
       /\ temp_state' = IF ok THEN "deleted" ELSE temp_state
  /\ mpc' = "report"
  /\ UNCHANGED <<args, output_format, output_file, markdown, temp_html, out_html,
                 conv_result, exit_code, stderr>>
  /\ UNCHANGED orch_vars
  /\ UNCHANGED layout_vars

\* Report printing the error without process::exit(1)
ReportAlwaysZero ==
  /\ mpc = "report"
  /\ Exit(0)
  /\ IF conv_result.kind = "Ok"
     THEN UNCHANGED stderr
     ELSE stderr' = Append(stderr, "Conversion failed: " \o Display(conv_result))
  /\ UNCHANGED <<args, output_format, output_file, markdown, temp_html, temp_state,
                 out_html, conv_result, oscalls>>
  /\ UNCHANGED orch_vars
  /\ UNCHANGED layout_vars

\* convert_markdown_file and handle_command hand the result to main:
\* if let Err(e) = .. { eprintln!(..); process::exit(1) }
Report ==
  /\ mpc = "report"
  /\ IF conv_result.kind = "Ok"
     THEN /\ Exit(0)
          /\ UNCHANGED stderr
     ELSE /\ Exit(1)
          /\ stderr' = Append(stderr, "Conversion failed: " \o Display(conv_result))
  /\ UNCHANGED <<args, output_format, output_file, markdown, temp_html, temp_state,
                 out_html, conv_result, oscalls>>
  /\ UNCHANGED orch_vars
  /\ UNCHANGED layout_vars

\* the process as started from the command line
MainInit ==
  /\ installed \in SUBSET {Candidates[i] : i \in 1..Len(Candidates)}
  /\ args \in ArgLines
  /\ html_file = ""
  /\ pdf_file = ""
  /\ pc = "spawn_chrome"
  /\ chrome_process = ""
  /\ tab_id = ""
  /\ pdf_bytes = << >>
  /\ result = NoResult
  /\ resp = NoResp
  /\ calls = << >>
  /\ running = {}
  /\ open_tabs = {}
  /\ files = {}
  /\ mpc = "main"
  /\ output_format = ""
  /\ output_file = ""
  /\ markdown = ""
  /\ temp_html = ""
  /\ temp_state = "none"
  /\ out_html = ""
  /\ conv_result = NoResult
  /\ exit_code = -1
  /\ stderr = << >>
  /\ oscalls = << >>
  /\ NoLayout

MainNext ==
  \/ Main
  \/ ReadMarkdown
  \/ WriteHtmlOutput
  \/ CreateTemp
  \/ WriteTemp
  \/ CreateRuntime
  \/ RemoveTemp
  \/ DropTemp
  \/ Report
  \/ Next

MainSpec == MainInit /\ [][MainNext]_vars

(***************************************************************************)
(* The Layout Engine: one step lays out one node of the tree.              *)
(***************************************************************************)
DrawCommand(text, size, x, y) == [text |-> text, size |-> size, x |-> x, y |-> y]

\* heading levels 1 and 2 exchanged
HeadingSizeSwapped(level) ==
  CASE level = 1 -> 20
    [] level = 2 -> 24
    [] level = 3 -> 16
    [] OTHER -> 14

\* font size of a heading: 1 -> 24, 2 -> 20, 3 -> 16, any other level -> 14
HeadingSize(level) ==
  CASE level = 1 -> 24
    [] level = 2 -> 20
    [] level = 3 -> 16
    [] OTHER -> 14

\* size * 0.7 mm, in tenths of a millimetre
HeadingAdvance(size) == size * 7

HeadingGap == 40
ParagraphAdvance == 100
ParagraphGap == 40
ItemAdvance == 80
ItemGap == 20
BodySize == 12

LayoutStep(node) ==
  /\ node_ix <= Len(tree)
  /\ tree[node_ix] = node
  /\ node_ix' = node_ix + 1
  /\ UNCHANGED tree
  /\ UNCHANGED orch_vars
  /\ UNCHANGED main_vars

\* Heading: move by size * 0.7, draw at the body margin, leave a 4 mm gap
LayoutHeading ==
  \E node \in LayoutNodes :
    /\ node.kind = "Heading"
    /\ LayoutStep(node)
    /\ LET size == HeadingSize(node.level)
           y == cursor_y - HeadingAdvance(size)
       IN  /\ commands' = Append(commands, DrawCommand("heading", size, BodyX, y))
           /\ cursor_y' = y - HeadingGap

\* Paragraph: move 10 mm, draw at 12 pt, leave a 4 mm gap
LayoutParagraph ==
  \E node \in LayoutNodes :
    /\ node.kind = "Paragraph"
    /\ LayoutStep(node)
    /\ LET y == cursor_y - ParagraphAdvance
       IN  /\ commands' = Append(commands, DrawCommand("paragraph", BodySize, BodyX, y))
           /\ cursor_y' = y - ParagraphGap

\* List: for each item move 8 mm, draw the bulleted text at the list indent,
\* leave a 2 mm gap
LayoutList ==
  \E node \in LayoutNodes :
    /\ node.kind = "List"
    /\ LayoutStep(node)
    /\ commands' = commands \o
         [k \in 1..node.items |->
            DrawCommand("* item", BodySize, ListX,
                        cursor_y - k * ItemAdvance - (k - 1) * ItemGap)]
    /\ cursor_y' = cursor_y - node.items * (ItemAdvance + ItemGap)

\* any other kind: nothing is drawn for the container itself
LayoutOther ==
  \E node \in LayoutNodes :
    /\ node.kind \notin {"Heading", "Paragraph", "List"}
    /\ LayoutStep(node)
    /\ UNCHANGED <<commands, cursor_y>>

LayoutInit ==
  /\ installed = {}
  /\ args = [kind |-> "help", command |-> "", input_ok |-> FALSE, output |-> ""]
  /\ html_file = ""
  /\ pdf_file = ""
  /\ pc = "spawn_chrome"
  /\ chrome_process = ""
  /\ tab_id = ""
  /\ pdf_bytes = << >>
  /\ result = NoResult
  /\ resp = NoResp
  /\ calls = << >>
  /\ running = {}
  /\ open_tabs = {}
  /\ files = {}
  /\ mpc = "main"
  /\ output_format = ""
  /\ output_file = ""
  /\ markdown = ""
  /\ temp_html = ""
  /\ temp_state = "none"
  /\ out_html = ""
  /\ conv_result = NoResult
  /\ exit_code = -1
  /\ stderr = << >>
  /\ oscalls = << >>
  /\ tree \in Trees
  /\ node_ix = 1
  /\ cursor_y = StartY
  /\ commands = << >>

LayoutNext ==
  \/ LayoutHeading
  \/ LayoutParagraph
  \/ LayoutList
  \/ LayoutOther

LayoutSpec == LayoutInit /\ [][LayoutNext]_vars

(***************************************************************************)
(* Reading the record of external calls.                                   *)
(***************************************************************************)
IsSpawn(c) == c.op = "spawn"
IsHttp(c) == c.op \in {"GET", "POST"}
IsKill(c) == c.op = "kill"
IsWrite(c) == c.op = "write"

IsListReq(c) == c.op = "GET" /\ c.arg = "http://localhost:9222/json"
IsNewTabReq(c) == c.op = "POST" /\ c.arg = "http://localhost:9222/json/new"
IsNavigateReq(c) ==
  c.op = "POST" /\ \E t \in TabIds \cup {""} : c.arg = "http://localhost:9222/json/navigate/" \o t
IsPrintReq(c) ==
  c.op = "POST" /\ \E t \in TabIds \cup {""} : c.arg = "http://localhost:9222/json/print/" \o t
IsCloseReq(c) ==
  c.op = "POST" /\ \E t \in TabIds \cup {""} : c.arg = "http://localhost:9222/json/close/" \o t

Made(T(_)) == \E i \in 1..Len(calls) : T(calls[i])
Count(T(_)) == Cardinality({i \in 1..Len(calls) : T(calls[i])})

Returned == pc = "done"

\* the spec's error kinds; the code folds ProcessUnavailable and
\* RemoteProtocolFailure into the one variant ChromeError
ProcessUnavailable ==
  [kind |-> "ChromeError",
   msg |-> "Could not start Chrome/Chromium. Please ensure Chrome or Chromium is installed."]
IsRemoteProtocolFailure(r) == r.kind = "ChromeError" /\ r # ProcessUnavailable
IsNetworkFailure(r) == r.kind = "NetworkError"
IsConversionFailure(r) == r.kind = "PdfConversionFailed"
IsIoFailure(r) == r.kind = "IoError"

(***************************************************************************)
(* C1: once a browser process has been spawned, every run kills it before  *)
(* returning, on the Ok path and on every error path.                      *)
(* The code kills only on the Ok path: every ? and return Err(..) after    *)
(* the spawn leaves the child running (std::process::Child does not kill   *)
(* on drop).                                                               *)
(***************************************************************************)
C1_KilledBeforeReturn ==
  (Returned /\ chrome_process # "") =>
     /\ \E i \in 1..Len(calls) : calls[i].op = "kill" /\ calls[i].arg = chrome_process
     /\ chrome_process \notin running

(***************************************************************************)
(* C2: once a tab identifier has been obtained, every run attempts the     *)
(* close-tab request for it before returning, and the run's result does    *)
(* not depend on how that attempt went.                                    *)
(* The code attempts the close only after the PDF was written.             *)
(***************************************************************************)
C2_CloseAttemptedBeforeReturn ==
  (Returned /\ tab_id # "") =>
     /\ \E i \in 1..Len(calls) :
          /\ calls[i].op = "POST"
          /\ calls[i].arg = "http://localhost:9222/json/close/" \o tab_id
     /\ (Made(IsCloseReq) /\ Made(IsKill)) => result.kind = "Ok"

(***************************************************************************)
(* C3: if no candidate binary can be spawned the function returns          *)
(* ProcessUnavailable, and on return no browser process runs, no tab       *)
(* exists, no request was issued and the destination PDF was not written.  *)
(***************************************************************************)
C3_NoBrowserNoEffects ==
  (installed = {}) =>
     /\ running = {}
     /\ chrome_process = ""
     /\ open_tabs = {}
     /\ tab_id = ""
     /\ ~Made(IsHttp)
     /\ ~Made(IsWrite)
     /\ files = {}
     /\ result \in {NoResult, ProcessUnavailable}
     /\ Returned <=> (Count(IsSpawn) = 3)
     /\ Returned => result = ProcessUnavailable

C3_Witness ==
  /\ installed = {}
  /\ Returned
  /\ Count(IsSpawn) = 3
  /\ result = ProcessUnavailable

(***************************************************************************)
(* C4: the candidates are tried in the order chrome, chromium,             *)
(* google-chrome; one is tried only if every earlier one failed to spawn;  *)
(* at most one process is spawned, and it is the first candidate in that   *)
(* order that can be spawned.                                              *)
(***************************************************************************)
C4_CandidateOrder ==
  LET order == <<"chrome", "chromium", "google-chrome">>
      sp == SelectSeq(calls, IsSpawn)
  IN  /\ Len(sp) <= 3
      /\ \A i \in 1..Len(sp) : sp[i].arg = order[i] /\ calls[i] = sp[i]
      /\ \A i \in 1..(Len(sp) - 1) : sp[i].arg \notin installed
      /\ Cardinality({i \in 1..Len(sp) : sp[i].arg \in installed}) <= 1
      /\ Cardinality(running) <= 1
      /\ running \subseteq {chrome_process}
      /\ chrome_process # "" =>
            \E k \in 1..3 :
               /\ chrome_process = order[k]
               /\ order[k] \in installed
               /\ \A j \in 1..(k - 1) : order[j] \notin installed
               /\ Len(sp) = k
      /\ (Len(sp) > 0 /\ sp[Len(sp)].arg \in installed) => chrome_process = sp[Len(sp)].arg

C4_Witness ==
  /\ installed = {"chromium", "google-chrome"}
  /\ chrome_process = "chromium"
  /\ Count(IsSpawn) = 2
  /\ Returned

(***************************************************************************)
(* Reading one step: the call the step made, if it made one.               *)
(***************************************************************************)
HttpCalls == SelectSeq(calls, IsHttp)

Issued(T(_)) == Len(calls') = Len(calls) + 1 /\ T(calls'[Len(calls')])

\* the first page-type target of the list, 0 if there is none
FirstPageIndex(ts) ==
  IF \E i \in 1..Len(ts) : ts[i].type = "page"
  THEN CHOOSE i \in 1..Len(ts) :
         ts[i].type = "page" /\ \A j \in 1..Len(ts) : ts[j].type = "page" => i <= j
  ELSE 0

SuccessStatus(r) == r.status \in 200..299

\* the states of spec 4.5, read off the position in the function
OrchState ==
  CASE pc \in {"spawn_chrome", "spawn_chromium", "spawn_google_chrome"} -> "NotStarted"
    [] pc = "sleep_start" -> "ProcessSpawned"
    [] pc \in {"list_targets", "new_tab"} -> "DebuggerReady"
    [] pc = "navigate" -> "TabCreated"
    [] pc \in {"sleep_load", "print", "write_pdf"} -> "Navigated"
    [] pc = "close_tab" -> "Printed"
    [] pc = "kill" -> "Closed"
    [] pc = "done" -> IF result.kind = "Ok" THEN "Closed" ELSE "Failed"

StateOrder ==
  <<"NotStarted", "ProcessSpawned", "DebuggerReady", "TabCreated", "Navigated",
    "Printed", "Closed">>

StateIndex(st) == CHOOSE i \in 1..Len(StateOrder) : StateOrder[i] = st

\* the requests made so far are an initial part of list, new tab, navigate,
\* print, close, and as many as the state stands for
RequestsInOrder ==
  LET h == HttpCalls
  IN  /\ Len(h) <= 5
      /\ Len(h) >= 1 => IsListReq(h[1])
      /\ Len(h) >= 2 => IsNewTabReq(h[2])
      /\ Len(h) >= 3 => IsNavigateReq(h[3])
      /\ Len(h) >= 4 => IsPrintReq(h[4])
      /\ Len(h) >= 5 => IsCloseReq(h[5])
      /\ OrchState \in {"NotStarted", "ProcessSpawned"} => Len(h) = 0
      /\ OrchState = "DebuggerReady" => Len(h) \in {0, 1}
      /\ OrchState = "TabCreated" => Len(h) = 2
      /\ OrchState = "Navigated" => Len(h) \in {3, 4}
      /\ OrchState = "Printed" => Len(h) = 4
      /\ OrchState = "Closed" => Len(h) = 5

\* resp answers the latest request: that request succeeded
LatestRequestSucceeded ==
  LET prev == HttpCalls[Len(HttpCalls)]
  IN  /\ resp.sent
      /\ IsListReq(prev) =>
           /\ resp.json
           /\ FirstPageIndex(resp.targets) # 0
           /\ resp.targets[FirstPageIndex(resp.targets)].has_ws
      /\ IsNewTabReq(prev) => resp.json /\ resp.has_id
      /\ IsNavigateReq(prev) => SuccessStatus(resp)
      /\ IsPrintReq(prev) =>
           SuccessStatus(resp) /\ resp.json /\ resp.has_data /\ files # {}

(***************************************************************************)
(* C5: the orchestrator goes through NotStarted, ProcessSpawned,           *)
(* DebuggerReady, TabCreated, Navigated, Printed, Closed in that order     *)
(* without skipping or revisiting a state; the list-targets, new-tab,      *)
(* navigate, print and close requests are issued in that order, each only  *)
(* when every earlier step succeeded; the only other transition is to the  *)
(* terminal state Failed.                                                  *)
(***************************************************************************)
C5_StateSequence ==
  [][ /\ \/ OrchState' = OrchState
         \/ OrchState' = "Failed" /\ OrchState # "Closed"
         \/ /\ OrchState # "Failed"
            /\ OrchState' # "Failed"
            /\ StateIndex(OrchState') = StateIndex(OrchState) + 1
      /\ OrchState \in {"Failed", "Closed"} => OrchState' = OrchState
      /\ RequestsInOrder'
      /\ Issued(IsHttp) => chrome_process # "" /\ result = NoResult
      /\ (Issued(IsHttp) /\ Len(HttpCalls) > 0) => LatestRequestSucceeded
      /\ OrchState = "Failed" => calls' = calls
    ]_vars

C5_Witness ==
  /\ Returned
  /\ OrchState = "Closed"
  /\ Len(HttpCalls) = 5
  /\ result.kind = "Ok"

(***************************************************************************)
(* C6: for each of the list-targets, new-tab, navigate and print requests, *)
(* a non-success HTTP status or a missing expected JSON field yields       *)
(* RemoteProtocolFailure and the sequence does not advance; a transport    *)
(* failure yields NetworkFailure.                                          *)
(* The code checks the status of the navigate and print responses only:    *)
(* a list-targets or new-tab response with a non-success status is parsed  *)
(* like any other.                                                         *)
(***************************************************************************)
C6_StatusOrFieldFailure ==
  LET h == HttpCalls
  IN  (Len(h) > 0 /\ ~IsCloseReq(h[Len(h)])) =>
        LET last == h[Len(h)]
            missing ==
              /\ resp.json
              /\ \/ /\ IsListReq(last)
                    /\ FirstPageIndex(resp.targets) # 0
                    /\ ~resp.targets[FirstPageIndex(resp.targets)].has_ws
                 \/ IsNewTabReq(last) /\ ~resp.has_id
                 \/ IsPrintReq(last) /\ ~resp.has_data
        IN  /\ ~resp.sent => (Returned /\ IsNetworkFailure(result))
            /\ (resp.sent /\ (~SuccessStatus(resp) \/ missing)) =>
                 (Returned /\ IsRemoteProtocolFailure(result))

(***************************************************************************)
(* C7: when the fetched target list has no target of type page, or its     *)
(* first page-type target has no websocket field, the run fails with       *)
(* RemoteProtocolFailure and the new-tab, navigate and print requests are  *)
(* never issued.                                                           *)
(***************************************************************************)
C7_NoUsablePageTarget ==
  [][ /\ (/\ Issued(IsListReq)
          /\ resp'.sent
          /\ resp'.json
          /\ \/ FirstPageIndex(resp'.targets) = 0
             \/ ~resp'.targets[FirstPageIndex(resp'.targets)].has_ws)
         => /\ pc' = "done"
            /\ IsRemoteProtocolFailure(result')
            /\ result'.msg = IF FirstPageIndex(resp'.targets) = 0
                             THEN "No page target found"
                             ELSE "No WebSocket URL found"
            /\ \A i \in 1..Len(calls') :
                 ~(IsNewTabReq(calls'[i]) \/ IsNavigateReq(calls'[i]) \/ IsPrintReq(calls'[i]))
      /\ pc = "done" => calls' = calls
    ]_vars

\* the first page target has no websocket url although a later one has
C7_Witness ==
  /\ Returned
  /\ Len(HttpCalls) = 1
  /\ resp.sent /\ resp.json
  /\ Len(resp.targets) = 2
  /\ resp.targets[1].type = "page" /\ ~resp.targets[1].has_ws
  /\ resp.targets[2].type = "page" /\ resp.targets[2].has_ws
  /\ result = [kind |-> "ChromeError", msg |-> "No WebSocket URL found"]

(***************************************************************************)
(* C8: the navigate request names the tab identifier the new-tab response  *)
(* returned and carries the file:// URL of the generated HTML file; on a   *)
(* non-success status the run fails with RemoteProtocolFailure and the     *)
(* print request is never issued.                                          *)
(***************************************************************************)
C8_Navigate ==
  [][ /\ Issued(IsNavigateReq) =>
           LET req == calls'[Len(calls')]
           IN  /\ resp.has_id
               /\ resp.id \in TabIds
               /\ IsNewTabReq(calls[Len(calls)])
               /\ req.arg = "http://localhost:9222/json/navigate/" \o resp.id
               /\ req.body = "file://" \o html_file
               /\ (resp'.sent /\ ~SuccessStatus(resp')) =>
                    /\ pc' = "done"
                    /\ result' = [kind |-> "ChromeError",
                                  msg |-> "Failed to navigate to HTML file"]
                    /\ IsRemoteProtocolFailure(result')
      /\ Issued(IsPrintReq) =>
           /\ \E i \in 1..Len(calls) : IsNavigateReq(calls[i])
           /\ resp.sent /\ SuccessStatus(resp)
      /\ pc = "done" => calls' = calls
    ]_vars

C8_Witness ==
  /\ Returned
  /\ Len(HttpCalls) = 3
  /\ IsNavigateReq(HttpCalls[3])
  /\ HttpCalls[3].arg = "http://localhost:9222/json/navigate/T2"
  /\ HttpCalls[3].body = "file:///tmp/.tmpB"
  /\ resp.sent /\ resp.status = 404
  /\ result.msg = "Failed to navigate to HTML file"

\* a payload of the model that base64 accepts: whole quanta of alphabet characters
WellFormedPayload(d) == Len(d) % 4 = 0 /\ \A i \in 1..Len(d) : d[i] # "!"

AtMostOnce ==
  /\ \A n \in {"chrome", "chromium", "google-chrome"} :
       Cardinality({i \in 1..Len(calls) : calls[i].op = "spawn" /\ calls[i].arg = n}) <= 1
  /\ Count(IsSpawn) <= 3
  /\ Count(IsListReq) <= 1
  /\ Count(IsNewTabReq) <= 1
  /\ Count(IsNavigateReq) <= 1
  /\ Count(IsPrintReq) <= 1
  /\ Count(IsCloseReq) <= 1
  /\ Count(IsWrite) <= 1
  /\ Count(IsKill) <= 1
  /\ Count(IsHttp) = Count(IsListReq) + Count(IsNewTabReq) + Count(IsNavigateReq)
                       + Count(IsPrintReq) + Count(IsCloseReq)

(***************************************************************************)
(* C10 as stated: no external call is retried, and the first failure of    *)
(* any call other than the cleanup calls ends the conversion with that     *)
(* error.  A candidate spawn is one of those calls; a failed spawn of      *)
(* chrome or chromium does not end the conversion.                         *)
(***************************************************************************)
C10_AnyFailureEndsConversion ==
  /\ AtMostOnce
  /\ \A i \in 1..Len(calls) :
       (calls[i].op = "spawn" /\ calls[i].arg \notin installed) =>
          /\ i = Len(calls)
          /\ Returned
          /\ result = ProcessUnavailable
  /\ (Len(HttpCalls) > 0 /\ ~IsCloseReq(HttpCalls[Len(HttpCalls)]) /\ ~resp.sent) =>
       (Returned /\ IsNetworkFailure(result))

(***************************************************************************)
(* C10 amended: no external call is retried: each candidate is spawned at  *)
(* most once and each request is issued at most once; a failed spawn of    *)
(* chrome or chromium only moves on to the next candidate; the first       *)
(* failure of any other call except the cleanup calls (the spawn of        *)
(* google-chrome, a list-targets, new-tab, navigate or print request, the  *)
(* PDF write) ends the conversion with that error.                         *)
(***************************************************************************)
C10_NoRetry ==
  [][ /\ AtMostOnce'
      /\ Issued(IsSpawn) =>
           LET name == calls'[Len(calls')].arg
           IN  name \notin installed =>
                 IF name = "google-chrome"
                 THEN pc' = "done" /\ result' = ProcessUnavailable
                 ELSE /\ result' = NoResult
                      /\ pc' = IF name = "chrome" THEN "spawn_chromium"
                                                  ELSE "spawn_google_chrome"
      /\ (Issued(IsHttp) /\ ~IsCloseReq(calls'[Len(calls')]) /\ ~resp'.sent) =>
           pc' = "done" /\ IsNetworkFailure(result')
      /\ ((Issued(IsNavigateReq) \/ Issued(IsPrintReq)) /\ resp'.sent /\ ~SuccessStatus(resp')) =>
           pc' = "done" /\ IsRemoteProtocolFailure(result')
      /\ (Issued(IsWrite) /\ files' = files) =>
           pc' = "done" /\ IsIoFailure(result')
      /\ (result'.kind \notin {"none", "Ok"}) => pc' = "done"
      /\ pc = "done" => (calls' = calls /\ result' = result)
    ]_vars

\* a run that got past a failed spawn and then ended at its first failed request
C10_Witness ==
  /\ Returned
  /\ installed = {"google-chrome"}
  /\ Count(IsSpawn) = 3
  /\ Len(HttpCalls) = 3
  /\ ~resp.sent
  /\ IsNetworkFailure(result)

(***************************************************************************)
(* Reading the record of the caller's external calls.                      *)
(***************************************************************************)
OsMade(op) == \E i \in 1..Len(oscalls) : oscalls[i].op = op
OsCount(op) == Cardinality({i \in 1..Len(oscalls) : oscalls[i].op = op})
OsIssued(op) == Len(oscalls') > Len(oscalls) /\ oscalls'[Len(oscalls')].op = op

IsDeletion(c) == c.op \in {"remove_file", "drop"}

\* convert_markdown_to_pdf has returned after creating its temporary file
PdfReturnedWithTemp == mpc \in {"report", "exited"} /\ temp_html # ""

(***************************************************************************)
(* C11 as stated: the temporary HTML file no longer exists when            *)
(* convert_markdown_to_pdf returns, on every exit path after its creation, *)
(* and the returned result is the orchestrator's.  Both deletions are      *)
(* best-effort: when remove_file and the TempPath drop both fail the file  *)
(* is still there.                                                         *)
(***************************************************************************)
C11_TempFileGoneOnReturn ==
  PdfReturnedWithTemp =>
    /\ temp_state = "deleted"
    /\ OsMade("block_on") => conv_result = result

(***************************************************************************)
(* C11 amended: on every exit path after the temporary file was created    *)
(* (HTML write failure, runtime failure, orchestrator failure or success)  *)
(* convert_markdown_to_pdf attempts to delete it before returning, and the *)
(* file no longer exists on return unless every attempt failed; a failed   *)
(* deletion never changes the returned result, which is the orchestrator's *)
(* result whenever the orchestrator ran.                                   *)
(***************************************************************************)
C11_TempFileDeletionAttempted ==
  [][ /\ (PdfReturnedWithTemp)' =>
           /\ \E i \in 1..Len(oscalls') :
                IsDeletion(oscalls'[i]) /\ oscalls'[i].arg = temp_html'
           /\ (temp_state' = "deleted") <=>
                (\E i \in 1..Len(oscalls') : IsDeletion(oscalls'[i]) /\ oscalls'[i].ok)
           /\ (\E i \in 1..Len(oscalls') : oscalls'[i].op = "block_on") =>
                /\ conv_result' = result'
                /\ result' # NoResult
                /\ \E i \in 1..Len(oscalls') : oscalls'[i].op = "remove_file"
           /\ (\A i \in 1..Len(oscalls') : oscalls'[i].op # "block_on") =>
                /\ calls' = << >>
                /\ conv_result' =
                     IF \E i \in 1..Len(oscalls') : oscalls'[i].op = "runtime"
                     THEN [kind |-> "ChromeError", msg |-> "Failed to create async runtime"]
                     ELSE [kind |-> "IoError", msg |-> "io"]
      /\ OsIssued("remove_file") => (conv_result' = result /\ result' = result)
      /\ OsIssued("drop") => (conv_result' = conv_result /\ result' = result)
      /\ (temp_state = "deleted") => (temp_state' = "deleted")
    ]_vars

\* the orchestrator failed, remove_file failed, the drop removed the file
C11_Witness ==
  /\ PdfReturnedWithTemp
  /\ OsMade("block_on")
  /\ \E i \in 1..Len(oscalls) : oscalls[i].op = "remove_file" /\ ~oscalls[i].ok
  /\ \E i \in 1..Len(oscalls) : oscalls[i].op = "drop" /\ oscalls[i].ok
  /\ temp_state = "deleted"
  /\ conv_result.kind = "NetworkError"
  /\ conv_result = result

\* the label Display puts before the message of each error variant
ErrorLabel(kind) ==
  CASE kind = "IoError" -> "I/O error: "
    [] kind = "PdfConversionFailed" -> "PDF conversion failed: "
    [] kind = "ChromeError" -> "Chrome error: "
    [] kind = "NetworkError" -> "Network error: "

\* main got as far as calling convert_markdown_file
ConversionStarted == OsMade("read")

(***************************************************************************)
(* C12: every ConversionError a conversion returns (reading the input,     *)
(* writing the HTML, any orchestrator step) reaches main unchanged; main   *)
(* prints its message and exits nonzero; the exit status is zero only when *)
(* the conversion returned Ok; after a failed PDF conversion nothing is    *)
(* started again.                                                          *)
(***************************************************************************)
C12_ErrorsSurfaceAtTopLevel ==
  [][ /\ (mpc' = "exited" /\ ConversionStarted') =>
           /\ conv_result' # NoResult
           /\ (exit_code' = 0) <=> (conv_result'.kind = "Ok")
           /\ exit_code' \in {0, 1}
           /\ conv_result'.kind # "Ok" =>
                /\ exit_code' = 1
                /\ Len(stderr') > 0
                /\ stderr'[Len(stderr')] =
                     "Conversion failed: " \o ErrorLabel(conv_result'.kind) \o conv_result'.msg
           /\ (\E i \in 1..Len(oscalls') : oscalls'[i].op = "block_on") =>
                conv_result' = result'
      /\ (OsIssued("read") /\ ~oscalls'[Len(oscalls')].ok) =>
           conv_result' = [kind |-> "IoError", msg |-> "io"]
      /\ (OsIssued("write_html") /\ ~oscalls'[Len(oscalls')].ok) =>
           conv_result' = [kind |-> "IoError", msg |-> "io"]
      /\ (conv_result # NoResult) =>
           /\ conv_result' = conv_result
           /\ calls' = calls
           /\ running' = running
           /\ ~OsIssued("block_on") /\ ~OsIssued("tempfile") /\ ~OsIssued("runtime")
           /\ ~OsIssued("read") /\ ~OsIssued("write_html")
      /\ Cardinality({i \in 1..Len(oscalls') : oscalls'[i].op = "block_on"}) <= 1
      /\ (exit_code # -1) => UNCHANGED vars
    ]_vars

C12_Witness ==
  /\ mpc = "exited"
  /\ exit_code = 1
  /\ OsMade("block_on")
  /\ conv_result = [kind |-> "ChromeError", msg |-> "No page target found"]
  /\ stderr = << "Conversion failed: Chrome error: No page target found" >>

(***************************************************************************)
(* C14 as stated: a PDF request runs exactly one PDF strategy exactly once *)
(* (one orchestrator run per request) and an HTML request runs none.  A    *)
(* PDF request whose input cannot be read, or whose temporary file or      *)
(* runtime cannot be made, runs no orchestrator at all.                    *)
(***************************************************************************)
C14_ExactlyOneRunPerPdfRequest ==
  (mpc = "exited" /\ output_format # "") =>
    /\ output_format = "Pdf" => OsCount("block_on") = 1
    /\ output_format = "Html" => (OsCount("block_on") = 0 /\ calls = << >>)

(***************************************************************************)
(* C14 amended: a PDF request runs the one PDF strategy at most once (at   *)
(* most one orchestrator run per request), and exactly once when reading   *)
(* the input, creating and writing the temporary file and creating the     *)
(* runtime all succeeded; an HTML request runs none: the convert command   *)
(* only reads the input and writes the output file, never creating a       *)
(* temporary file, spawning a browser or issuing a control request.        *)
(***************************************************************************)
C14_OneStrategyPerRequest ==
  /\ OsCount("block_on") <= 1
  /\ OsCount("tempfile") <= 1
  /\ OsCount("runtime") <= 1
  /\ OsCount("read") <= 1
  /\ Count(IsSpawn) <= 3
  /\ output_format \in {"", "Html", "Pdf"}
  /\ output_format = "" => (oscalls = << >> /\ calls = << >>)
  /\ (output_format = "Pdf" /\ mpc = "exited") =>
       ((OsCount("block_on") = 1) <=>
          (/\ \A i \in 1..Len(oscalls) :
                oscalls[i].op \in {"read", "tempfile", "write_html", "runtime"} => oscalls[i].ok
           /\ OsMade("runtime")))
  /\ (OsMade("block_on") /\ mpc # "chrome") => Returned
  /\ Made(IsSpawn) => OsMade("block_on")
  /\ output_format = "Html" =>
       /\ args.command = "convert"
       /\ calls = << >>
       /\ running = {}
       /\ chrome_process = ""
       /\ open_tabs = {}
       /\ files = {}
       /\ temp_html = ""
       /\ temp_state = "none"
       /\ Len(oscalls) <= 2
       /\ \A i \in 1..Len(oscalls) :
            \/ i = 1 /\ oscalls[i].op = "read"
            \/ i = 2 /\ oscalls[i].op = "write_html" /\ oscalls[i].arg = output_file
       /\ mpc = "exited" => Len(oscalls) = (IF oscalls[1].ok THEN 2 ELSE 1)
  /\ output_format = "Pdf" => (args.command = "pdf" /\ out_html = "")

C14_Witness ==
  /\ mpc = "exited"
  /\ output_format = "Html"
  /\ exit_code = 0
  /\ out_html # ""
  /\ Len(oscalls) = 2

IsSleep(c) == c.op = "sleep"

(***************************************************************************)
(* C15: every run that gets past spawning performs the fixed wait before   *)
(* its first request to the control endpoint, with no probe of the         *)
(* endpoint before or during the wait; every run that gets a successful    *)
(* navigate response performs the second fixed wait before the print       *)
(* request; a run performs at most these two waits.                        *)
(***************************************************************************)
C15_FixedWaits ==
  [][ /\ Issued(IsSleep) =>
           /\ ~(\E i \in 1..Len(calls) : IsHttp(calls[i])) \/ Count(IsSleep) = 1
           /\ Count(IsSleep) = 0 =>
                /\ calls'[Len(calls')].ms = 1000
                /\ calls[Len(calls)] = [op |-> "spawn", arg |-> chrome_process,
                                        body |-> "", ms |-> 0]
                /\ chrome_process \in installed
                /\ ~Made(IsHttp)
           /\ Count(IsSleep) = 1 =>
                /\ calls'[Len(calls')].ms = 2000
                /\ IsNavigateReq(calls[Len(calls)])
                /\ resp.sent /\ SuccessStatus(resp)
      /\ (Issued(IsHttp) /\ ~Made(IsHttp)) =>
           /\ IsSleep(calls[Len(calls)])
           /\ calls[Len(calls)].ms = 1000
      /\ (Issued(IsSpawn) /\ calls'[Len(calls')].arg \in installed) => pc' = "sleep_start"
      /\ (Issued(IsNavigateReq) /\ resp'.sent /\ SuccessStatus(resp')) => pc' = "sleep_load"
      /\ pc = "sleep_start" => Issued(IsSleep)
      /\ pc = "sleep_load" => Issued(IsSleep)
      /\ Issued(IsPrintReq) =>
           /\ IsSleep(calls[Len(calls)])
           /\ calls[Len(calls)].ms = 2000
           /\ IsNavigateReq(calls[Len(calls) - 1])
      /\ Cardinality({i \in 1..Len(calls') : IsSleep(calls'[i])}) <= 2
    ]_vars

C15_Witness ==
  /\ Count(IsSleep) = 2
  /\ Made(IsPrintReq)
  /\ \E i \in 1..Len(calls) : IsSleep(calls[i]) /\ calls[i].ms = 1000 /\ IsListReq(calls[i + 1])
  /\ \E i \in 2..Len(calls) :
       IsSleep(calls[i]) /\ calls[i].ms = 2000 /\ IsNavigateReq(calls[i - 1])
                         /\ IsPrintReq(calls[i + 1])

(***************************************************************************)
(* C17: the destination PDF path is written at most once per conversion    *)
(* and only after spawn, list targets, new tab, navigate, print and the    *)
(* base64 decode all succeeded; a run that fails at any of those steps     *)
(* leaves the destination untouched; a run returns Ok only if the write    *)
(* succeeded.                                                              *)
(***************************************************************************)
C17_DestinationWrittenOnce ==
  [][ /\ Cardinality({i \in 1..Len(calls') : IsWrite(calls'[i])}) <= 1
      /\ Issued(IsWrite) =>
           /\ calls'[Len(calls')].arg = pdf_file
           /\ chrome_process \in installed
           /\ Len(HttpCalls) = 4
           /\ IsListReq(HttpCalls[1]) /\ IsNewTabReq(HttpCalls[2])
           /\ IsNavigateReq(HttpCalls[3]) /\ IsPrintReq(HttpCalls[4])
           /\ tab_id \in TabIds
           /\ resp.sent /\ SuccessStatus(resp) /\ resp.json /\ resp.has_data
           /\ WellFormedPayload(resp.data)
           /\ result = NoResult
      /\ files' # files =>
           /\ Issued(IsWrite)
           /\ files = {}
           /\ Cardinality(files') = 1
           /\ \A f \in files' : f.path = pdf_file
      /\ (pc' = "done" /\ result'.kind # "Ok"
            /\ \A i \in 1..Len(calls') : ~IsWrite(calls'[i])) => files' = {}
      /\ (pc' = "done" /\ result'.kind = "Ok") =>
           /\ \E i \in 1..Len(calls') : IsWrite(calls'[i])
           /\ Cardinality(files') = 1
           /\ \A f \in files' : f.path = pdf_file /\ f.content = pdf_bytes'
    ]_vars

C17_Witness ==
  /\ Returned
  /\ result.kind = "Ok"
  /\ Count(IsWrite) = 1
  /\ files = {[path |-> pdf_file, content |-> <<255, 255, 255>>]}

(***************************************************************************)
(* C18: the temporary HTML file is completely written before the browser   *)
(* process is spawned and is not deleted until the orchestrator has        *)
(* returned, so the file named in the navigate URL exists at the time of   *)
(* the navigate request and of the print request.                          *)
(***************************************************************************)
C18_TempFilePresentWhileOrchestratorRuns ==
  [][ /\ calls' # calls =>
           /\ temp_state = "written" /\ temp_state' = "written"
           /\ html_file = temp_html
           /\ temp_html \in HtmlFiles
           /\ \E i \in 1..Len(oscalls) :
                /\ oscalls[i] = [op |-> "write_html", arg |-> temp_html, ok |-> TRUE]
                /\ \A j \in 1..Len(oscalls) : IsDeletion(oscalls[j]) => FALSE
      /\ Issued(IsNavigateReq) => calls'[Len(calls')].body = "file://" \o temp_html
      /\ (OsIssued("remove_file") \/ OsIssued("drop")) =>
           (Made(IsSpawn) => Returned)
      /\ (temp_state = "written" /\ temp_state' # "written") =>
           /\ OsIssued("remove_file") \/ OsIssued("drop")
           /\ Returned \/ ~Made(IsSpawn)
    ]_vars

C18_Witness ==
  /\ mpc = "chrome"
  /\ pc = "write_pdf"
  /\ Made(IsPrintReq)
  /\ temp_state = "written"
  /\ oscalls[Len(oscalls)].op = "block_on"

(***************************************************************************)
(* C16: provided every external call returns, every orchestrator run       *)
(* eventually reaches Closed (returning Ok) or the terminal state Failed   *)
(* (returning an error); it loops or waits forever in no state.            *)
(***************************************************************************)
C16_RunTerminates ==
  <>(/\ Returned
     /\ \/ OrchState = "Closed" /\ result.kind = "Ok"
        \/ OrchState = "Failed" /\ result.kind \in {"ChromeError", "NetworkError",
                                                     "IoError", "PdfConversionFailed"})

C16_Witness ==
  /\ Returned
  /\ OrchState = "Failed"
  /\ result.kind = "PdfConversionFailed"
  /\ Len(calls) = 7

HeadingsOnly ==
  \A i \in 1..Len(tree) : tree[i].kind = "Heading" /\ tree[i].level \in 1..6

(***************************************************************************)
(* C13: for every tree that holds only Heading nodes of levels 1..6 the    *)
(* Layout Engine emits font sizes that do not increase as the level        *)
(* increases (24, 20, 16, 14, 14, 14), and the y-coordinate is strictly    *)
(* decreasing across successive draw commands.                             *)
(***************************************************************************)
C13_HeadingSizesAndCursor ==
  HeadingsOnly =>
    /\ Len(commands) = node_ix - 1
    /\ \A i \in 1..Len(commands) :
         /\ commands[i].size = <<24, 20, 16, 14, 14, 14>>[tree[i].level]
         /\ commands[i].y < 2870
         /\ cursor_y < commands[i].y
    /\ \A i, j \in 1..Len(commands) :
         tree[i].level <= tree[j].level => commands[i].size >= commands[j].size
    /\ \A i \in 1..(Len(commands) - 1) : commands[i + 1].y < commands[i].y

C13_Witness ==
  /\ HeadingsOnly
  /\ Len(tree) = 3
  /\ tree[1].level = 2 /\ tree[2].level = 1 /\ tree[3].level = 6
  /\ Len(commands) = 3
  /\ commands[1].size = 20 /\ commands[2].size = 24 /\ commands[3].size = 14
  /\ commands[1].y = 2730 /\ commands[2].y = 2522 /\ commands[3].y = 2384

TypeOK ==
  /\ pc \in {"spawn_chrome", "spawn_chromium", "spawn_google_chrome", "sleep_start",
             "list_targets", "new_tab", "navigate", "sleep_load", "print",
             "write_pdf", "close_tab", "kill", "done"}
  /\ result.kind \in {"none", "Ok", "ChromeError", "NetworkError", "IoError",
                      "PdfConversionFailed"}
  /\ (pc = "done") <=> (result # NoResult)
====
